---- MODULE Spec2Model ----
(***************************************************************************)
(* Model of the health-state engine (waf_monitor/monitor.py, URLMonitor)   *)
(* and of the process supervisor (waf_monitor/watchdog.py, Watchdog).      *)
(* The two run as separate operating-system processes and share only       *)
(* files, so each has its own specification: SpecMon and SpecWD.           *)
(***************************************************************************)
EXTENDS Integers, Sequences, FiniteSets, TLC

\* ------------------------------------------------------------------------
\* Bounds of the model
\* ------------------------------------------------------------------------
MaxCount == 3        \* checks are explored while count stays within this
MaxRetry == 1        \* failed cycles are explored while _retry_count < this
MaxMaxRestarts == 2
MaxFailures == 7  \* max_restarts is drawn from 0..MaxMaxRestarts

URLS == {"u1", "u2"}
Thresholds == {0, 1, 2}          \* values unhealthy_threshold is reloaded to
NoState == [kind |-> "none"]     \* no data/state_<group>.json on disk

response_timeout == 5

AllGroups == {"group2"}          \* groups with a bin/monitor_<group>.py
PIDS == {1, 2}                   \* process ids the system hands out
NoPid == 0                       \* utils.load_pid() returning None

\* ------------------------------------------------------------------------
\* State
\* ------------------------------------------------------------------------
VARIABLES
    \* --- monitor process (URLMonitor) ---
    m_pc,                \* position of the monitor_urls thread
    unhealthy_threshold, \* self.unhealthy_threshold
    url_health,          \* self.url_health: URL -> [count, alerted]
    urls,                \* the list load_targets() returned in this cycle
    futures,             \* the cycle's futures: "pending" | "done" | "raised"
    stray,               \* URLs of the checks abandoned cycles left in the pool
    retry_count,         \* self._retry_count
    state_file,          \* data/state_<group>.json
    checks_since_ok,     \* history: URL -> checks completed since last success
    cycle_hist,          \* history, kept when cycle_hist.on: how the last
                         \* step's configuration reload went, and the URLs
                         \* whose entry holds an update made by a check of
                         \* a cycle that was abandoned
    \* --- watchdog process (Watchdog) and what it supervises ---
    groups,              \* self.groups
    max_restarts,        \* self.max_restarts
    processes,           \* self.processes: group -> ProcessInfo
    ledger,              \* data/watchdog.json as last written
    pid_file,            \* data/<group>.pid: a pid, or NoPid when absent
    proc,                \* the process table: pid -> [st, g]
    wd_pc,               \* position of the watchdog in its pass
    wd_i,                \* index into groups of the group being handled
    wd_local,            \* locals alive across steps: is_running, the new
                         \* pid, restart_process's need_alert
    pass_hist,           \* history: the groups check_process was called for
                         \* in the current pass, and those whose handling
                         \* raised
    streak,              \* history: group -> what happened since the group
                         \* was last seen running, and the status before
                         \* the current pass
    \* --- both ---
    mon_running,         \* self.running
    monitor_interval,    \* self.monitor_interval, seconds
    slept,               \* history: seconds asked of the last time.sleep()
    fails,               \* history: cycles ended by the except clause since
                         \* the last cycle that completed
    ledger_writable,     \* whether open(data/watchdog.json, 'w') succeeds
    lock,                \* who holds self.lock: "free", "main" or a worker
    chk,                 \* pool thread -> where it stands in check_health:
                         \* pc, the URL, the alerts it has still to send
    alerts               \* history: alerts the last step handed to the notifier

monVars == <<m_pc, unhealthy_threshold, url_health, urls, futures, stray,
             retry_count, state_file, checks_since_ok, cycle_hist>>
wdVars == <<groups, max_restarts, processes, ledger, pid_file, proc, wd_pc,
            wd_i, wd_local, streak, pass_hist>>
schedVars == <<mon_running, monitor_interval, slept, fails>>
auxVars == <<schedVars, chk, ledger_writable, lock>>
vars == <<monVars, wdVars, auxVars, alerts>>

\* ------------------------------------------------------------------------
\* Helpers
\* ------------------------------------------------------------------------
Range(s) == {s[i] : i \in 1..Len(s)}

\* contents of targets_<group>.txt the cycles read: empty (or unreadable),
\* one URL, a repeated URL, two URLs
TargetLists == {<<>>, <<"u1">>, <<"u2">>, <<"u1", "u1">>, <<"u1", "u2">>}

\* requests.get(): an exception, or a response with a status and a latency
Responses == {[exc |-> TRUE, status |-> 0, elapsed |-> 0]}
             \cup [exc : {FALSE}, status : {200, 500}, elapsed : {1, 9}]

ConfigReloads == {[ok |-> FALSE, T |-> 0]} \cup [ok : {TRUE}, T : Thresholds]

NewEntry == [count |-> 0, alerted |-> FALSE]

SiteAlert(level, kind, u) ==
    [level |-> level, alert_type |-> "site", kind |-> kind, subject |-> u]

\* ------------------------------------------------------------------------
\* URLMonitor.check_health (monitor.py:81-161) as a function of the entry
\* h = url_health[url], the threshold T in force and the response.
\* Result: the new entry, the alerts sent, whether an exception escaped.
\* ------------------------------------------------------------------------
IsUnhealthy(resp) == resp.status # 200 \/ resp.elapsed > response_timeout

NeedAlert_Reached(count, T) == count >= T
\* count % self.unhealthy_threshold == 0, for T # 0
NeedAlert(count, T) == count % T = 0

\* the except block: entered when requests.get raised, or when the
\* failure branch raised (the modulo by a zero threshold)
ExceptPath(h, T, u) ==
    LET c == h.count + 1 IN
    IF T = 0
    THEN [h |-> [h EXCEPT !.count = c], out |-> <<>>, raised |-> TRUE]
    ELSE [h |-> [count |-> c, alerted |-> (h.alerted \/ NeedAlert(c, T))],
          out |-> IF NeedAlert(c, T)
                  THEN <<SiteAlert("warning", "unhealthy", u)>> ELSE <<>>,
          raised |-> FALSE]

FailPath_AlertedFollowsModulo(h, T, u) ==
    LET c == h.count + 1 IN
    IF T = 0
    THEN ExceptPath([h EXCEPT !.count = c], T, u)
    ELSE [h |-> [count |-> c, alerted |-> NeedAlert(c, T)],
          out |-> IF NeedAlert(c, T)
                  THEN <<SiteAlert("warning", "unhealthy", u)>> ELSE <<>>,
          raised |-> FALSE]
\* status_code != 200 or response_time > self.response_timeout
FailPath(h, T, u) ==
    LET c == h.count + 1 IN
    IF T = 0
    THEN ExceptPath([h EXCEPT !.count = c], T, u)
    ELSE [h |-> [count |-> c, alerted |-> (h.alerted \/ NeedAlert(c, T))],
          out |-> IF NeedAlert(c, T)
                  THEN <<SiteAlert("warning", "unhealthy", u)>> ELSE <<>>,
          raised |-> FALSE]

SuccessPath_KeepAlerted(h, u) ==
    [h |-> [count |-> 0, alerted |-> h.alerted],
     out |-> IF h.alerted THEN <<SiteAlert("info", "recovered", u)>> ELSE <<>>,
     raised |-> FALSE]
SuccessPath_NoNotice(h, u) ==
    [h |-> NewEntry, out |-> <<>>, raised |-> FALSE]
\* the healthy branch: was_alerted is read, the entry cleared, the
\* recovery notice sent when was_alerted
SuccessPath(h, u) ==
    [h |-> [count |-> 0, alerted |-> FALSE],
     out |-> IF h.alerted THEN <<SiteAlert("info", "recovered", u)>> ELSE <<>>,
     raised |-> FALSE]

check_health(h, T, u, resp) ==
    IF resp.exc THEN ExceptPath(h, T, u)
    ELSE IF IsUnhealthy(resp) THEN FailPath(h, T, u)
    ELSE SuccessPath(h, u)

IsSuccess(resp) == ~resp.exc /\ ~IsUnhealthy(resp)

\* Effect of one check of u on the monitor's state.  A URL with no entry
\* (a check left over from a cycle whose list still had it) raises KeyError
\* in the try block and again in the except block.
CheckRaises(u, resp) ==
    \/ u \notin DOMAIN url_health
    \/ check_health(url_health[u], unhealthy_threshold, u, resp).raised

CheckEffect(u, resp) ==
    IF u \notin DOMAIN url_health
    THEN /\ UNCHANGED <<url_health, checks_since_ok>>
         /\ alerts' = <<>>
    ELSE LET r == check_health(url_health[u], unhealthy_threshold, u, resp)
             g == checks_since_ok[u]
         IN  /\ r.h.count <= MaxCount
             /\ url_health' = [url_health EXCEPT ![u] = r.h]
             /\ checks_since_ok' = [checks_since_ok EXCEPT ![u] =
                    IF IsSuccess(resp) THEN [n |-> 0, clean |-> TRUE]
                    ELSE [n |-> g.n + 1,
                          clean |-> g.clean /\ unhealthy_threshold # 0]]
             /\ alerts' = r.out

\* ------------------------------------------------------------------------
\* URLMonitor.monitor_urls (monitor.py:163-248)
\* ------------------------------------------------------------------------
Reconcile_KeepRemoved(h, tl) ==
    [u \in DOMAIN h \cup Range(tl) |-> IF u \in DOMAIN h THEN h[u] ELSE NewEntry]
\* lines 215-224: drop the entries of URLs not in the list, add the new ones
Reconcile(h, tl) ==
    [u \in Range(tl) |-> IF u \in DOMAIN h THEN h[u] ELSE NewEntry]

ReconcileHistory(g, h) ==
    [u \in DOMAIN h |-> IF u \in DOMAIN g THEN g[u] ELSE [n |-> 0, clean |-> TRUE]]

\* the next value of the history: r is the outcome of this step's
\* configuration reload ("none" when the step reloads nothing), p the URLs
\* whose entry now holds an update of an abandoned cycle
Hist(r, p) ==
    IF cycle_hist.on THEN [cycle_hist EXCEPT !.reload = r, !.partial = p]
    ELSE cycle_hist

\* a file that was opened for writing and not written to its end
TornFile == [kind |-> "torn"]

\* utils.save_state: json.dump of the map, an object of objects with the
\* members "count" (a number) and "alerted" (true or false)
JsonDump(h) ==
    [kind |-> "json",
     doc |-> {[key |-> u, count |-> h[u].count,
               alerted |-> IF h[u].alerted THEN "true" ELSE "false"] :
                  u \in DOMAIN h}]

\* utils.load_state: json.load of what json.dump wrote
JsonLoad(f) ==
    [u \in {e.key : e \in f.doc} |->
        LET e == CHOOSE x \in f.doc : x.key = u
        IN  [count |-> e.count, alerted |-> e.alerted = "true"]]

\* URLMonitor.load_state: utils.load_state returns None for a missing file
\* and for one that json cannot decode; None and {} leave self.url_health
StateLoaded(f, h) ==
    IF f.kind = "json" /\ DOMAIN JsonLoad(f) # {} THEN JsonLoad(f) ELSE h

\* self.load_state(): a missing, unreadable or empty file leaves {}
MonStart ==
    /\ m_pc = "start"
    /\ url_health' = StateLoaded(state_file, url_health)
    /\ checks_since_ok' = [u \in DOMAIN url_health' |->
                              [n |-> url_health'[u].count, clean |-> TRUE]]
    /\ m_pc' = "cycle"
    /\ alerts' = <<>>
    /\ cycle_hist' = Hist("none", cycle_hist.partial)
    /\ UNCHANGED <<unhealthy_threshold, urls, futures, stray, retry_count,
                   state_file>>
    /\ UNCHANGED <<wdVars, auxVars>>

BeginCycle_ReconcileEmpty(cfg, tl) ==
    /\ m_pc = "cycle"
    /\ unhealthy_threshold' = IF cfg.ok THEN cfg.T ELSE unhealthy_threshold
    /\ urls' = tl
    /\ url_health' = Reconcile(url_health, tl)
    /\ checks_since_ok' = ReconcileHistory(checks_since_ok, url_health')
    /\ IF tl = <<>>
       THEN /\ m_pc' = "sleep_empty"
            /\ UNCHANGED futures
       ELSE /\ futures' = [i \in 1..Len(tl) |-> "pending"]
            /\ m_pc' = "wait"
    /\ alerts' = <<>>
    /\ cycle_hist' = Hist(IF cfg.ok THEN "ok" ELSE "failed",
                          IF tl = <<>> THEN cycle_hist.partial
                          ELSE cycle_hist.partial \cap Range(tl))
    /\ UNCHANGED <<stray, retry_count, state_file>>
    /\ UNCHANGED <<wdVars, auxVars>>

\* Top of the loop up to the submission of the checks (lines 174-227).
\* cfg: the reloaded threshold, or ok = FALSE when reloading raised (line 202).
\* tl: what load_targets() returned; [] also stands for a load failure.
BeginCycle(cfg, tl) ==
    /\ m_pc = "cycle"
    /\ unhealthy_threshold' = IF cfg.ok THEN cfg.T ELSE unhealthy_threshold
    /\ urls' = tl
    /\ IF tl = <<>>
       THEN /\ m_pc' = "sleep_empty"
            /\ UNCHANGED <<url_health, checks_since_ok, futures>>
       ELSE /\ url_health' = Reconcile(url_health, tl)
            /\ checks_since_ok' = ReconcileHistory(checks_since_ok, url_health')
            /\ futures' = [i \in 1..Len(tl) |-> "pending"]
            /\ m_pc' = "wait"
    /\ alerts' = <<>>
    /\ cycle_hist' = Hist(IF cfg.ok THEN "ok" ELSE "failed",
                          IF tl = <<>> THEN cycle_hist.partial
                          ELSE cycle_hist.partial \cap Range(tl))
    /\ UNCHANGED <<stray, retry_count, state_file>>
    /\ UNCHANGED <<wdVars, auxVars>>

\* one submitted check of the current cycle runs in the pool
RunCheck(i, resp) ==
    /\ m_pc = "wait"
    /\ i \in 1..Len(futures)
    /\ futures[i] = "pending"
    /\ CheckEffect(urls[i], resp)
    /\ futures' = [futures EXCEPT ![i] =
                      IF CheckRaises(urls[i], resp) THEN "raised" ELSE "done"]
    /\ cycle_hist' = Hist("none", IF IsSuccess(resp)
                                  THEN cycle_hist.partial \ {urls[i]}
                                  ELSE cycle_hist.partial)
    /\ UNCHANGED <<m_pc, unhealthy_threshold, urls, stray, retry_count,
                   state_file>>
    /\ UNCHANGED <<wdVars, auxVars>>

\* a check of an abandoned cycle runs in the pool
RunStrayCheck(u, resp) ==
    /\ u \in Range(stray)
    /\ CheckEffect(u, resp)
    /\ \E k \in 1..Len(stray) :
          /\ stray[k] = u
          /\ stray' = SubSeq(stray, 1, k - 1) \o SubSeq(stray, k + 1, Len(stray))
    /\ cycle_hist' = Hist("none", IF u \in DOMAIN url_health
                                  THEN cycle_hist.partial \cup {u}
                                  ELSE cycle_hist.partial)
    /\ UNCHANGED <<m_pc, unhealthy_threshold, urls, futures, retry_count,
                   state_file>>
    /\ UNCHANGED <<wdVars, auxVars>>

AllDone == \A i \in 1..Len(futures) : futures[i] = "done"
\* future.result() re-raises at the first future that raised
FirstRaised(k) ==
    /\ k \in 1..Len(futures)
    /\ futures[k] = "raised"
    /\ \A j \in 1..(k - 1) : futures[j] = "done"

RECURSIVE PendingFrom(_)
PendingFrom(i) ==
    IF i > Len(futures) THEN <<>>
    ELSE (IF futures[i] = "pending" THEN <<urls[i]>> ELSE <<>>)
         \o PendingFrom(i + 1)

\* lines 237-245: the except clause of the loop body.  The pool is explored
\* with the unfinished checks of at most one abandoned cycle in it.
Backoff ==
    /\ retry_count < MaxRetry
    /\ retry_count' = retry_count + 1
    /\ m_pc' = "backoff"
    /\ stray = <<>> \/ PendingFrom(1) = <<>>
    /\ stray' = stray \o PendingFrom(1)
    /\ futures' = <<>>

\* lines 228-235: every future returned, save_state() succeeded
CycleComplete ==
    /\ m_pc = "wait"
    /\ AllDone
    /\ state_file' = JsonDump(url_health)
    /\ m_pc' = "sleep"
    /\ futures' = <<>>
    /\ alerts' = <<>>
    /\ cycle_hist' = [Hist("none", cycle_hist.partial) EXCEPT
                         !.saved = IF cycle_hist.on THEN url_health ELSE @]
    /\ UNCHANGED <<unhealthy_threshold, url_health, urls, stray, retry_count,
                   checks_since_ok>>
    /\ UNCHANGED <<wdVars, auxVars>>

SaveFails_LosesMap ==
    /\ m_pc = "wait"
    /\ AllDone
    /\ Backoff
    /\ alerts' = <<>>
    /\ cycle_hist' = Hist("none", cycle_hist.partial)
    /\ url_health' = << >>
    /\ checks_since_ok' = << >>
    /\ UNCHANGED <<unhealthy_threshold, urls, state_file>>
    /\ UNCHANGED <<wdVars, auxVars>>

\* save_state() raised (the file could not be written)
SaveFails ==
    /\ m_pc = "wait"
    /\ AllDone
    /\ Backoff
    /\ alerts' = <<>>
    /\ cycle_hist' = Hist("none", cycle_hist.partial)
    /\ UNCHANGED <<unhealthy_threshold, url_health, urls, state_file,
                   checks_since_ok>>
    /\ UNCHANGED <<wdVars, auxVars>>

\* future.result() raised: the cycle is abandoned, its unfinished checks
\* stay in the pool
CycleAborted ==
    /\ m_pc = "wait"
    /\ \E k \in 1..Len(futures) : FirstRaised(k)
    /\ Backoff
    /\ alerts' = <<>>
    /\ cycle_hist' = Hist("none", cycle_hist.partial \cup
                              {urls[i] : i \in {j \in 1..Len(futures) :
                                                   futures[j] # "pending"}})
    /\ UNCHANGED <<unhealthy_threshold, url_health, urls, state_file,
                   checks_since_ok>>
    /\ UNCHANGED <<wdVars, auxVars>>

\* time.sleep() returns.  Only the sleep at line 235 is followed by the
\* else clause that resets _retry_count; the continue at line 210 skips it.
\* Then the loop condition at line 173 is tested.
Wake ==
    /\ m_pc \in {"sleep", "sleep_empty", "backoff"}
    /\ retry_count' = IF m_pc = "sleep" THEN 0 ELSE retry_count
    /\ m_pc' = IF mon_running THEN "cycle" ELSE "exited"
    /\ urls' = <<>>
    /\ alerts' = <<>>
    /\ cycle_hist' = Hist("none", cycle_hist.partial)
    /\ UNCHANGED <<unhealthy_threshold, url_health, futures, stray,
                   state_file, checks_since_ok>>
    /\ UNCHANGED <<wdVars, auxVars>>

MonVarsInit(Ts) ==
    /\ m_pc = "start"
    /\ unhealthy_threshold \in Ts
    /\ url_health = << >>
    /\ urls = <<>>
    /\ futures = <<>>
    /\ stray = <<>>
    /\ retry_count = 0
    /\ state_file = NoState
    /\ checks_since_ok = << >>

MonNext ==
    \/ MonStart
    \/ \E cfg \in ConfigReloads, tl \in TargetLists : BeginCycle(cfg, tl)
    \/ \E i \in 1..Len(futures), resp \in Responses : RunCheck(i, resp)
    \/ \E u \in URLS, resp \in Responses : RunStrayCheck(u, resp)
    \/ CycleComplete
    \/ SaveFails
    \/ CycleAborted
    \/ Wake

\* no watchdog runs beside the monitor
NoWatchdog ==
    /\ groups = <<>>
    /\ max_restarts = 0
    /\ processes = << >>
    /\ ledger = << >>
    /\ pid_file = [g \in AllGroups |-> NoPid]
    /\ proc = [p \in PIDS |-> [st |-> "free", g |-> "-"]]
    /\ wd_pc = "off"
    /\ wd_i = 1
    /\ wd_local = [is_running |-> FALSE, new_pid |-> NoPid, need_alert |-> FALSE]
    /\ streak = << >>
    /\ pass_hist = [checked |-> {}, raised |-> {}]
    /\ alerts = <<>>

Threads == {"t1", "t2"}          \* workers of the ThreadPoolExecutor
IdleThread == [pc |-> "idle", url |-> "-", out |-> <<>>]

\* start() has been called and stop() has not; sleep durations are recorded
\* in SpecSched only, the position of each worker in SpecCheck only
LoopRunning ==
    /\ chk = [t \in Threads |-> IdleThread]
    /\ ledger_writable = TRUE
    /\ lock = "free"
    /\ mon_running = TRUE
    /\ monitor_interval = 60
    /\ slept = 0
    /\ fails = 0

NoHist == [on |-> FALSE, reload |-> "none", partial |-> {}, saved |-> << >>]

MonInit ==
    /\ MonVarsInit(Thresholds)
    /\ cycle_hist = NoHist
    /\ NoWatchdog
    /\ LoopRunning

SpecMon == MonInit /\ [][MonNext]_vars

\* the monitor alone, with the history of cycle_hist recorded
MonHistInit ==
    /\ MonVarsInit(Thresholds)
    /\ cycle_hist = [NoHist EXCEPT !.on = TRUE]
    /\ NoWatchdog
    /\ LoopRunning

SpecMonHist == MonHistInit /\ [][MonNext]_vars

\* ------------------------------------------------------------------------
\* The polling loop as a scheduler: monitor_urls with the body of a cycle
\* reduced to its outcome (lines 173-248), start() and stop()
\* ------------------------------------------------------------------------
Intervals == {30, 60}            \* values monitor_interval is reloaded to

\* line 242
BackoffTime_Linear(k) == IF 10 * k < 300 THEN 10 * k ELSE 300
BackoffTime(k) == IF 10 * (2 ^ (k - 1)) < 300 THEN 10 * (2 ^ (k - 1)) ELSE 300

\* the loop condition, line 173
LoopTest_ExitAfterFailure == IF mon_running /\ m_pc # "backoff" THEN "cycle" ELSE "exited"
LoopTest_Forever == "cycle"
LoopTest == IF mon_running THEN "cycle" ELSE "exited"

SchedFrame ==
    /\ alerts' = <<>>
    /\ UNCHANGED <<unhealthy_threshold, url_health, urls, futures, stray,
                   state_file, checks_since_ok, cycle_hist, chk>>
    /\ UNCHANGED <<wdVars, ledger_writable, lock>>

\* load_state() at line 170, then the first test of the loop condition
SchedStart ==
    /\ m_pc = "start"
    /\ m_pc' = LoopTest
    /\ UNCHANGED <<retry_count, schedVars>>
    /\ SchedFrame

\* the reload at lines 175-203 (mi is the current value when it failed)
Reloaded(mi) == monitor_interval' = mi

\* lines 174-234 without an exception: the checks returned, the state was
\* saved, the loop sleeps monitor_interval
SchedCycleCompletes(mi) ==
    /\ m_pc = "cycle"
    /\ Reloaded(mi)
    /\ m_pc' = "sleep"
    /\ slept' = monitor_interval'
    /\ fails' = 0
    /\ UNCHANGED <<retry_count, mon_running>>
    /\ SchedFrame

\* lines 206-210: no valid URL, sleep monitor_interval and continue
SchedCycleEmpty(mi) ==
    /\ m_pc = "cycle"
    /\ Reloaded(mi)
    /\ m_pc' = "sleep_empty"
    /\ slept' = monitor_interval'
    /\ UNCHANGED <<retry_count, mon_running, fails>>
    /\ SchedFrame

\* an exception reached the except clause at lines 237-245
SchedCycleFails(mi) ==
    /\ m_pc = "cycle"
    /\ retry_count < MaxFailures
    /\ Reloaded(mi)
    /\ retry_count' = retry_count + 1
    /\ slept' = BackoffTime(retry_count')
    /\ fails' = fails + 1
    /\ m_pc' = "backoff"
    /\ UNCHANGED mon_running
    /\ SchedFrame

\* time.sleep() returns: lines 246-248 after the sleep at 235, then line 173
SchedWake ==
    /\ m_pc \in {"sleep", "sleep_empty", "backoff"}
    /\ retry_count' = IF m_pc = "sleep" THEN 0 ELSE retry_count
    /\ m_pc' = LoopTest
    /\ UNCHANGED schedVars
    /\ SchedFrame

\* stop(), lines 257-261
Stop ==
    /\ mon_running
    /\ m_pc # "exited"
    /\ mon_running' = FALSE
    /\ UNCHANGED <<m_pc, retry_count, monitor_interval, slept, fails>>
    /\ SchedFrame

SchedInit ==
    /\ MonVarsInit({1})
    /\ cycle_hist = NoHist
    /\ NoWatchdog
    /\ chk = [t \in Threads |-> IdleThread]
    /\ ledger_writable = TRUE
    /\ lock = "free"
    /\ mon_running = TRUE
    /\ monitor_interval \in Intervals
    /\ slept = 0
    /\ fails = 0

SchedNext ==
    \/ SchedStart
    \/ \E mi \in Intervals \cup {monitor_interval} : SchedCycleCompletes(mi)
    \/ \E mi \in Intervals \cup {monitor_interval} : SchedCycleEmpty(mi)
    \/ \E mi \in Intervals \cup {monitor_interval} : SchedCycleFails(mi)
    \/ SchedWake
    \/ Stop

SpecSched == SchedInit /\ [][SchedNext]_vars

\* time.sleep() returns and the body of a cycle ends
FairSched ==
    /\ SpecSched
    /\ WF_vars(SchedWake)
    /\ WF_vars(SchedStart)

\* every request returns or times out (timeout=self.response_timeout), so
\* the body of a cycle ends as well
CycleEnds ==
    \E mi \in Intervals \cup {monitor_interval} :
        \/ SchedCycleCompletes(mi)
        \/ SchedCycleEmpty(mi)
        \/ SchedCycleFails(mi)

FairStop ==
    /\ SpecSched
    /\ WF_vars(SchedWake)
    /\ WF_vars(SchedStart)
    /\ WF_vars(CycleEnds)

\* ------------------------------------------------------------------------
\* check_health statement by statement, run by the workers of the pool
\* (monitor.py:81-161).  The threshold is at least 1 here, so each path
\* has one block under self.lock, followed by the logging and the sending
\* of alerts outside the lock.
\* ------------------------------------------------------------------------
\* executor.submit(self.check_health, url), line 226
Submit(t, u) ==
    /\ chk[t].pc = "idle"
    /\ u \in DOMAIN url_health
    /\ chk' = [chk EXCEPT ![t] = [pc |-> "get", url |-> u, out |-> <<>>]]
    /\ alerts' = <<>>
    /\ UNCHANGED <<monVars, wdVars, schedVars, ledger_writable, lock>>

\* requests.get() returns or raises, then the block under the lock:
\* lines 95-101, 119-124 or 140-146
LockedUpdate(t, resp) ==
    LET u == chk[t].url
        r == check_health(url_health[u], unhealthy_threshold, u, resp)
    IN  /\ chk[t].pc = "get"
        /\ r.h.count <= MaxCount
        /\ url_health' = [url_health EXCEPT ![u] = r.h]
        /\ chk' = [chk EXCEPT ![t] = [pc |-> "send", url |-> u, out |-> r.out]]
        /\ alerts' = <<>>
        /\ UNCHANGED <<m_pc, unhealthy_threshold, urls, futures, stray,
                       retry_count, state_file, checks_since_ok, cycle_hist>>
        /\ UNCHANGED <<wdVars, schedVars, ledger_writable, lock>>

\* outside the lock: lines 103-116, 126-137 or 148-161
SendAlerts(t) ==
    /\ chk[t].pc = "send"
    /\ alerts' = chk[t].out
    /\ chk' = [chk EXCEPT ![t] = IdleThread]
    /\ UNCHANGED <<monVars, wdVars, schedVars, ledger_writable, lock>>

CheckInit ==
    /\ MonVarsInit({1, 2})
    /\ cycle_hist = NoHist
    /\ NoWatchdog
    /\ LoopRunning

\* the health map after the reconciliation of a cycle
CheckStart ==
    /\ m_pc = "start"
    /\ m_pc' = "wait"
    /\ \E tl \in TargetLists \ {<<>>} : url_health' = Reconcile(url_health, tl)
    /\ alerts' = <<>>
    /\ UNCHANGED <<unhealthy_threshold, urls, futures, stray, retry_count,
                   state_file, checks_since_ok, cycle_hist>>
    /\ UNCHANGED <<wdVars, auxVars>>

CheckNext ==
    \/ CheckStart
    \/ \E t \in Threads, u \in URLS : Submit(t, u)
    \/ \E t \in Threads, resp \in Responses : LockedUpdate(t, resp)
    \/ \E t \in Threads : SendAlerts(t)

SpecCheck == CheckInit /\ [][CheckNext]_vars

\* ------------------------------------------------------------------------
\* check_health and the reconcile step with self.lock made explicit: the
\* request, the acquisition of the lock, the block under it, and what
\* follows the block are steps of their own.
\* ------------------------------------------------------------------------
\* line 215: the monitor thread enters "with self.lock"
ReconcileAcquire ==
    /\ m_pc = "start"
    /\ lock = "free"
    /\ lock' = "main"
    /\ m_pc' = "reconcile"
    /\ alerts' = <<>>
    /\ UNCHANGED <<unhealthy_threshold, url_health, urls, futures, stray,
                   retry_count, state_file, checks_since_ok, cycle_hist>>
    /\ UNCHANGED <<wdVars, schedVars, chk, ledger_writable>>

\* lines 216-224 and the end of the with block
ReconcileRelease ==
    /\ m_pc = "reconcile"
    /\ \E tl \in TargetLists \ {<<>>} : url_health' = Reconcile(url_health, tl)
    /\ lock' = "free"
    /\ m_pc' = "wait"
    /\ alerts' = <<>>
    /\ UNCHANGED <<unhealthy_threshold, urls, futures, stray, retry_count,
                   state_file, checks_since_ok, cycle_hist>>
    /\ UNCHANGED <<wdVars, schedVars, chk, ledger_writable>>

\* line 88: requests.get() returns or raises; no lock is taken before it
GetReturns(t, resp) ==
    /\ chk[t].pc = "get"
    /\ chk' = [chk EXCEPT ![t] = [pc |-> "lock", url |-> chk[t].url,
                                  out |-> <<>>, resp |-> resp]]
    /\ alerts' = <<>>
    /\ UNCHANGED <<monVars, wdVars, schedVars, ledger_writable, lock>>

\* lines 95, 119, 140: "with self.lock" is entered when the lock is free
Acquire(t) ==
    /\ chk[t].pc = "lock"
    /\ lock = "free"
    /\ lock' = t
    /\ chk' = [chk EXCEPT ![t].pc = "locked"]
    /\ alerts' = <<>>
    /\ UNCHANGED <<monVars, wdVars, schedVars, ledger_writable>>

UpdateAndRelease_KeepLock(t) ==
    LET u == chk[t].url
        r == check_health(url_health[u], unhealthy_threshold, u, chk[t].resp)
    IN  /\ chk[t].pc = "locked"
        /\ r.h.count <= MaxCount
        /\ url_health' = [url_health EXCEPT ![u] = r.h]
        /\ chk' = [chk EXCEPT ![t] = [pc |-> "send", url |-> u, out |-> r.out]]
        /\ alerts' = <<>>
        /\ UNCHANGED <<m_pc, unhealthy_threshold, urls, futures, stray,
                       retry_count, state_file, checks_since_ok, cycle_hist>>
        /\ UNCHANGED <<wdVars, schedVars, ledger_writable, lock>>

\* lines 96-101, 121-124 or 141-146, and the end of the with block
UpdateAndRelease(t) ==
    LET u == chk[t].url
        r == check_health(url_health[u], unhealthy_threshold, u, chk[t].resp)
    IN  /\ chk[t].pc = "locked"
        /\ r.h.count <= MaxCount
        /\ url_health' = [url_health EXCEPT ![u] = r.h]
        /\ lock' = "free"
        /\ chk' = [chk EXCEPT ![t] = [pc |-> "send", url |-> u, out |-> r.out]]
        /\ alerts' = <<>>
        /\ UNCHANGED <<m_pc, unhealthy_threshold, urls, futures, stray,
                       retry_count, state_file, checks_since_ok, cycle_hist>>
        /\ UNCHANGED <<wdVars, schedVars, ledger_writable>>

LockNext ==
    \/ ReconcileAcquire
    \/ ReconcileRelease
    \/ \E t \in Threads, u \in URLS : Submit(t, u)
    \/ \E t \in Threads, resp \in Responses : GetReturns(t, resp)
    \/ \E t \in Threads : Acquire(t)
    \/ \E t \in Threads : UpdateAndRelease(t)
    \/ \E t \in Threads : SendAlerts(t)

SpecLock == CheckInit /\ [][LockNext]_vars

\* ------------------------------------------------------------------------
\* The watchdog (waf_monitor/watchdog.py) and the processes it supervises
\* ------------------------------------------------------------------------
\* ProcessInfo.status: "未知", "运行中", "已停止",
\* "已停止 - 超过最大重启次数", "已手动停止"
Statuses == {"Unknown", "Running", "Stopped", "StoppedMaxRestarts",
             "StoppedManually"}

ProcessAlert(level, kind, g) ==
    [level |-> level, alert_type |-> "process", kind |-> kind, subject |-> g]

NewProcessInfo_Counted(pid) ==
    [pid |-> pid, status |-> "Unknown", restart_count |-> 1,
     need_alert |-> TRUE]
\* ProcessInfo(group_name, pid) with the constructor's defaults
NewProcessInfo(pid) ==
    [pid |-> pid, status |-> "Unknown", restart_count |-> 0,
     need_alert |-> TRUE]

FreeSlot == [st |-> "free", g |-> "-"]

\* psutil.Process(pid) finds a process that is neither gone nor a zombie
IsAlive(p) == p \in PIDS /\ proc[p].st # "free"
\* the process's command line contains monitor_<group>.py
IsGroupMonitor(p, g) ==
    proc[p].st \in {"starting", "writing", "mon"} /\ proc[p].g = g
StalePid_DeadOnly(p, g) == p \in PIDS /\ ~IsAlive(p)
\* a PID-file value that is no live monitor of the group
StalePid(p, g) == p \in PIDS /\ ~(IsAlive(p) /\ IsGroupMonitor(p, g))

\* line 137: a PID change between two checks resets the restart count
PidChanged(pid, old_pid) == pid # NoPid /\ old_pid # NoPid /\ pid # old_pid

ReadsAsManualStop_OnlyStopped(status) == status = "Stopped"
\* lines 162-163: with no PID file, these statuses read as a manual stop
ReadsAsManualStop(status) == status \in {"Stopped", "StoppedManually"}

ReadsAsManualStart_NotMax(status) ==
    status \in {"Stopped", "StoppedManually"}
\* line 198: statuses from which a running process counts as a manual start
ReadsAsManualStart(status) ==
    status \in {"Stopped", "StoppedMaxRestarts", "StoppedManually"}

\* check_process(group_name) with load_pid() returning pid: the record it
\* leaves, its return value, and the PID file after it
check_process(P, g, pid) ==
    LET r0 == IF g \in DOMAIN P THEN P[g] ELSE NewProcessInfo(pid)
        r1 == IF PidChanged(pid, r0.pid)
              THEN [r0 EXCEPT !.restart_count = 0] ELSE r0
        r2 == [r1 EXCEPT !.pid = pid]
    IN  IF pid = NoPid
        THEN [rec |-> IF ReadsAsManualStop(r2.status)
                      THEN [r2 EXCEPT !.status = "StoppedManually",
                                      !.need_alert = FALSE]
                      ELSE [r2 EXCEPT !.status = "Stopped"],
              running |-> FALSE, file |-> NoPid]
        ELSE IF StalePid(pid, g)
        THEN [rec |-> [r2 EXCEPT !.status = "Stopped"],
              running |-> FALSE, file |-> NoPid]
        ELSE [rec |-> [(IF ReadsAsManualStart(r2.status)
                        THEN [r2 EXCEPT !.restart_count = 0,
                                        !.need_alert = TRUE]
                        ELSE r2) EXCEPT !.status = "Running"],
              running |-> TRUE, file |-> pid]

\* line 314
OverMax_Strict(count, max) == count > max
OverMax(count, max) == count >= max

Decision_IgnoreRunning(rec, running) ==
    IF rec.status = "StoppedManually" THEN "skip"
    ELSE IF OverMax(rec.restart_count, max_restarts) THEN "max_restarts"
    ELSE IF rec.need_alert THEN "restart"
    ELSE "none"
\* lines 301-372: what check_all_processes does with a group after
\* check_process returned
Decision(rec, running) ==
    IF running THEN "running"
    ELSE IF rec.status = "StoppedManually" THEN "skip"
    ELSE IF OverMax(rec.restart_count, max_restarts) THEN "max_restarts"
    ELSE IF rec.need_alert THEN "restart"
    ELSE "none"

\* lines 297-372 for one group with load_pid() returning pid: the status
\* the record is left with and what is done about the group
PassOutcome(P, g, pid) ==
    LET r == check_process(P, g, pid)
        d == Decision(r.rec, r.running)
    IN  [status |-> IF d = "max_restarts" THEN "StoppedMaxRestarts"
                    ELSE r.rec.status,
         decision |-> d]

Put(f, k, v) == [x \in DOMAIN f \cup {k} |-> IF x = k THEN v ELSE f[x]]

NoLocal == [is_running |-> FALSE, new_pid |-> NoPid, need_alert |-> FALSE]

DeadCap == MaxMaxRestarts + 2
Bump(n, cap) == IF n < cap THEN n + 1 ELSE cap

\* the for loop of check_all_processes moves on; after the last group
\* save_state() writes the ledger (line 381), or logs that it could not
\* (lines 119-120)
FinishGroup ==
    IF wd_i < Len(groups)
    THEN /\ wd_i' = wd_i + 1
         /\ wd_pc' = "check"
         /\ UNCHANGED ledger
    ELSE /\ wd_i' = 1
         /\ wd_pc' = "sleep"
         /\ ledger' = IF ledger_writable THEN processes' ELSE ledger

\* bin/watchdog.py: time.sleep(check_interval) returns, the next pass begins
WDWake ==
    /\ wd_pc = "sleep"
    /\ wd_pc' = "check"
    /\ alerts' = <<>>
    /\ UNCHANGED <<groups, max_restarts, processes, ledger, pid_file, proc,
                   wd_i, wd_local, streak>>
    /\ UNCHANGED <<monVars, auxVars, pass_hist>>

\* the status the record of g holds, "None" without a record
StatusBefore(g) == IF g \in DOMAIN processes THEN processes[g].status ELSE "None"

\* the history of the pass once check_process was called for g
Checked(g) ==
    IF wd_i = 1 THEN [checked |-> {g}, raised |-> {}]
    ELSE [pass_hist EXCEPT !.checked = @ \cup {g}]

\* line 299: is_running = self.check_process(group_name)
CheckProcess ==
    /\ wd_pc = "check"
    /\ LET g == groups[wd_i]
           r == check_process(processes, g, pid_file[g])
       IN  /\ processes' = Put(processes, g, r.rec)
           /\ pid_file' = [pid_file EXCEPT ![g] = r.file]
           /\ wd_local' = [NoLocal EXCEPT !.is_running = r.running]
           /\ streak' = [streak EXCEPT ![g] =
                 IF r.running
                 THEN [dead |-> 0, tried |-> 0, maxed |-> 0, exited |-> FALSE,
                       before |-> StatusBefore(g), crashed |-> FALSE,
                       alerted |-> FALSE]
                 ELSE [@ EXCEPT !.dead = Bump(@, DeadCap),
                                !.before = StatusBefore(g)]]
    /\ wd_pc' = "decide"
    /\ alerts' = <<>>
    /\ UNCHANGED <<groups, max_restarts, ledger, proc, wd_i>>
    /\ UNCHANGED <<monVars, auxVars>>
    /\ pass_hist' = Checked(groups[wd_i])

\* lines 301-311 and 373-374: the group runs, or is taken as stopped by hand
NothingToDo ==
    /\ wd_pc = "decide"
    /\ Decision(processes[groups[wd_i]], wd_local.is_running)
           \in {"running", "skip"}
    /\ wd_local' = NoLocal
    /\ alerts' = <<>>
    /\ UNCHANGED <<groups, max_restarts, processes, pid_file, proc, streak>>
    /\ UNCHANGED <<monVars, auxVars, pass_hist>>
    /\ FinishGroup

\* lines 314-335: the restart budget is used up
GiveUp ==
    /\ wd_pc = "decide"
    /\ LET g == groups[wd_i]
       IN  /\ Decision(processes[g], wd_local.is_running) = "max_restarts"
           /\ processes' = [processes EXCEPT
                               ![g].status = "StoppedMaxRestarts"]
           /\ alerts' = <<ProcessAlert("error", "max_restarts", g)>>
           /\ streak' = [streak EXCEPT ![g].maxed = Bump(@, 2),
                                       ![g].alerted = TRUE]
    /\ wd_local' = NoLocal
    /\ UNCHANGED <<groups, max_restarts, pid_file, proc>>
    /\ UNCHANGED <<monVars, auxVars, pass_hist>>
    /\ FinishGroup

\* lines 370-372: need_alert is off, the group is left as it is
LeaveStopped ==
    /\ wd_pc = "decide"
    /\ LET g == groups[wd_i]
       IN  /\ Decision(processes[g], wd_local.is_running) = "none"
           /\ streak' = [streak EXCEPT ![g].maxed = 0]
    /\ wd_local' = NoLocal
    /\ alerts' = <<>>
    /\ UNCHANGED <<groups, max_restarts, processes, pid_file, proc>>
    /\ UNCHANGED <<monVars, auxVars, pass_hist>>
    /\ FinishGroup

\* lines 340, 232-270: restart_process up to time.sleep(2).  recent is the
\* test of line 239 on the time since check_process stamped the record.
SpawnMonitor(p, recent) ==
    /\ wd_pc = "decide"
    /\ proc[p].st = "free"
    /\ LET g == groups[wd_i]
       IN  /\ Decision(processes[g], wd_local.is_running) = "restart"
           /\ processes' = [processes EXCEPT ![g].restart_count = @ + 1]
           /\ proc' = [proc EXCEPT ![p] = [st |-> "starting", g |-> g]]
           /\ streak' = [streak EXCEPT ![g].tried = Bump(@, DeadCap),
                                       ![g].maxed = 0]
    /\ wd_local' = [wd_local EXCEPT !.new_pid = p, !.need_alert = ~recent]
    /\ wd_pc' = "grace"
    /\ alerts' = <<>>
    /\ UNCHANGED <<groups, max_restarts, ledger, pid_file, wd_i>>
    /\ UNCHANGED <<monVars, auxVars, pass_hist>>

\* lines 340, 232-262, 285-287, 357-366: subprocess.Popen raised
SpawnFails ==
    /\ wd_pc = "decide"
    /\ LET g == groups[wd_i]
       IN  /\ Decision(processes[g], wd_local.is_running) = "restart"
           /\ processes' = [processes EXCEPT ![g].restart_count = @ + 1]
           /\ alerts' = <<ProcessAlert("warning", "restart_failed", g)>>
           /\ streak' = [streak EXCEPT ![g].tried = Bump(@, DeadCap),
                                       ![g].maxed = 0,
                                       ![g].alerted = TRUE]
    /\ wd_local' = NoLocal
    /\ UNCHANGED <<groups, max_restarts, pid_file, proc>>
    /\ UNCHANGED <<monVars, auxVars, pass_hist>>
    /\ FinishGroup

RestartAlerts_Suppressed(g, restart_result, need_alert) ==
    IF restart_result /\ need_alert
    THEN <<ProcessAlert("warning", "restarted", g)>>
    ELSE <<>>
\* lines 345-369: the alert that follows restart_process
RestartAlerts(g, restart_result, need_alert) ==
    IF restart_result /\ need_alert
    THEN <<ProcessAlert("warning", "restarted", g)>>
    ELSE IF ~restart_result
    THEN <<ProcessAlert("warning", "restart_failed", g)>>
    ELSE <<>>

\* lines 276-283 and 342-369: after time.sleep(2)
AfterGrace ==
    /\ wd_pc = "grace"
    /\ LET g == groups[wd_i]
           restart_success == IsAlive(wd_local.new_pid)
           need_alert == wd_local.need_alert /\ restart_success
       IN  /\ processes' = [processes EXCEPT ![g].need_alert = need_alert]
           /\ alerts' = RestartAlerts(g, restart_success, need_alert)
           /\ streak' = [streak EXCEPT ![g].alerted = @ \/ alerts' # <<>>]
    /\ wd_local' = NoLocal
    /\ UNCHANGED <<groups, max_restarts, pid_file, proc>>
    /\ UNCHANGED <<monVars, auxVars, pass_hist>>
    /\ FinishGroup

\* the watchdog is in a time.sleep(): between passes, or in the grace period
TimePasses == wd_pc \in {"sleep", "grace"}

\* someone runs bin/monitor_<group>.py (a shell, the start tool)
MonitorLaunch(p, g) ==
    /\ TimePasses
    /\ proc[p].st = "free"
    /\ proc' = [proc EXCEPT ![p] = [st |-> "starting", g |-> g]]
    /\ alerts' = <<>>
    /\ UNCHANGED <<groups, max_restarts, processes, ledger, pid_file, wd_pc,
                   wd_i, wd_local, streak>>
    /\ UNCHANGED <<monVars, auxVars, pass_hist>>

\* bin/monitor_<group>.py main(), lines 56-75: leave when the PID file
\* names another running process
MonitorMainCheck(p) ==
    /\ TimePasses
    /\ proc[p].st = "starting"
    /\ LET old_pid == pid_file[proc[p].g]
       IN  proc' = [proc EXCEPT ![p] =
                       IF old_pid # NoPid /\ IsAlive(old_pid) /\ old_pid # p
                       THEN FreeSlot ELSE [@ EXCEPT !.st = "writing"]]
    /\ alerts' = <<>>
    /\ UNCHANGED <<groups, max_restarts, processes, ledger, pid_file, wd_pc,
                   wd_i, wd_local, streak>>
    /\ UNCHANGED <<monVars, auxVars, pass_hist>>

\* main(), lines 76-85: write the own pid to the PID file
MonitorMainWrite(p) ==
    /\ TimePasses
    /\ proc[p].st = "writing"
    /\ proc' = [proc EXCEPT ![p].st = "mon"]
    /\ pid_file' = [pid_file EXCEPT ![proc[p].g] = p]
    /\ alerts' = <<>>
    /\ UNCHANGED <<groups, max_restarts, processes, ledger, wd_pc, wd_i,
                   wd_local, streak>>
    /\ UNCHANGED <<monVars, auxVars, pass_hist>>

\* main loop, lines 195-199: a missing PID file is written again
MonitorRecreatePid(p) ==
    /\ TimePasses
    /\ proc[p].st = "mon"
    /\ pid_file[proc[p].g] = NoPid
    /\ pid_file' = [pid_file EXCEPT ![proc[p].g] = p]
    /\ alerts' = <<>>
    /\ UNCHANGED <<groups, max_restarts, processes, ledger, proc, wd_pc,
                   wd_i, wd_local, streak>>
    /\ UNCHANGED <<monVars, auxVars, pass_hist>>

\* signal_handler / atexit / finally: the monitor is stopped and removes
\* the PID file, whatever pid it holds
MonitorExit(p) ==
    /\ TimePasses
    /\ proc[p].st = "mon"
    /\ proc' = [proc EXCEPT ![p] = FreeSlot]
    /\ pid_file' = [pid_file EXCEPT ![proc[p].g] = NoPid]
    /\ streak' = [streak EXCEPT ![proc[p].g].exited = TRUE]
    /\ alerts' = <<>>
    /\ UNCHANGED <<groups, max_restarts, processes, ledger, wd_pc, wd_i,
                   wd_local>>
    /\ UNCHANGED <<monVars, auxVars, pass_hist>>

\* the monitor is killed or dies without running any handler
MonitorCrash(p) ==
    /\ TimePasses
    /\ proc[p].st \in {"starting", "writing", "mon"}
    /\ proc' = [proc EXCEPT ![p] = FreeSlot]
    /\ streak' = [streak EXCEPT ![proc[p].g].crashed = TRUE]
    /\ alerts' = <<>>
    /\ UNCHANGED <<groups, max_restarts, processes, ledger, pid_file, wd_pc,
                   wd_i, wd_local>>
    /\ UNCHANGED <<monVars, auxVars, pass_hist>>

\* the system gives a free pid to a process that is no monitor
OtherStart(p) ==
    /\ TimePasses
    /\ proc[p].st = "free"
    /\ proc' = [proc EXCEPT ![p] = [st |-> "other", g |-> "-"]]
    /\ alerts' = <<>>
    /\ UNCHANGED <<groups, max_restarts, processes, ledger, pid_file, wd_pc,
                   wd_i, wd_local, streak>>
    /\ UNCHANGED <<monVars, auxVars, pass_hist>>

OtherExit(p) ==
    /\ TimePasses
    /\ proc[p].st = "other"
    /\ proc' = [proc EXCEPT ![p] = FreeSlot]
    /\ alerts' = <<>>
    /\ UNCHANGED <<groups, max_restarts, processes, ledger, pid_file, wd_pc,
                   wd_i, wd_local, streak>>
    /\ UNCHANGED <<monVars, auxVars, pass_hist>>

\* start_all.py, reset_all_restart_counts (lines 196-229): every record of
\* the ledger file with a positive count or given up on gets count 0, and
\* "stopped - max restarts" becomes "stopped"; the file is rewritten when
\* a record changed
ResetRecord(rec) ==
    IF rec.restart_count > 0 \/ rec.status = "StoppedMaxRestarts"
    THEN [rec EXCEPT !.restart_count = 0,
                     !.status = IF @ = "StoppedMaxRestarts" THEN "Stopped" ELSE @]
    ELSE rec

ResetAllRestartCounts ==
    /\ TimePasses
    /\ ledger' = [g \in DOMAIN ledger |-> ResetRecord(ledger[g])]
    /\ ledger' # ledger
    /\ alerts' = <<>>
    /\ UNCHANGED <<groups, max_restarts, processes, pid_file, proc, wd_pc,
                   wd_i, wd_local, streak>>
    /\ UNCHANGED <<monVars, auxVars, pass_hist>>

\* Watchdog.__init__ with no ledger on disk, before its first pass
WDInit ==
    /\ MonVarsInit({1})
    /\ cycle_hist = NoHist
    /\ LoopRunning
    /\ groups = <<"group2">>
    /\ max_restarts \in 0..MaxMaxRestarts
    /\ processes = << >>
    /\ ledger = << >>
    /\ pid_file = [g \in AllGroups |-> NoPid]
    /\ proc = [p \in PIDS |-> FreeSlot]
    /\ wd_pc = "sleep"
    /\ wd_i = 1
    /\ wd_local = NoLocal
    /\ streak = [g \in AllGroups |->
                    [dead |-> 0, tried |-> 0, maxed |-> 0, exited |-> FALSE,
                     before |-> "None", crashed |-> FALSE,
                     alerted |-> FALSE]]
    /\ pass_hist = [checked |-> {}, raised |-> {}]
    /\ alerts = <<>>

WDNext ==
    \/ WDWake
    \/ CheckProcess
    \/ NothingToDo
    \/ GiveUp
    \/ LeaveStopped
    \/ \E p \in PIDS, recent \in BOOLEAN : SpawnMonitor(p, recent)
    \/ SpawnFails
    \/ AfterGrace
    \/ \E p \in PIDS, g \in AllGroups : MonitorLaunch(p, g)
    \/ \E p \in PIDS : MonitorMainCheck(p)
    \/ \E p \in PIDS : MonitorMainWrite(p)
    \/ \E p \in PIDS : MonitorRecreatePid(p)
    \/ \E p \in PIDS : MonitorExit(p)
    \/ \E p \in PIDS : MonitorCrash(p)
    \/ \E p \in PIDS : OtherStart(p)
    \/ \E p \in PIDS : OtherExit(p)
    \/ ResetAllRestartCounts

SpecWD == WDInit /\ [][WDNext]_vars

\* ------------------------------------------------------------------------
\* A pass over two groups, with a PID file that cannot be read and an
\* alerter that raises.  The monitors are started by the watchdog only and
\* stay up, so the branch of lines 370-372 is never taken
\* (bin/monitor_group3.py is taken to be as bin/monitor_group2.py).
\* ------------------------------------------------------------------------
PassGroups == <<"group2", "group3">>

AfterRaise_AbortPass ==
    /\ wd_i' = 1
    /\ wd_pc' = "sleep"
    /\ UNCHANGED ledger
\* the except clause at lines 376-378: log, then the for loop goes on
AfterRaise == FinishGroup

\* utils.load_pid() at line 129 raises (it catches FileNotFoundError and
\* ValueError only): nothing of the record is touched, the except clause
\* at lines 376-378 logs and the for loop goes on
LoadPidRaises ==
    /\ wd_pc = "check"
    /\ pass_hist' = [Checked(groups[wd_i]) EXCEPT !.raised = @ \cup {groups[wd_i]}]
    /\ wd_local' = NoLocal
    /\ alerts' = <<>>
    /\ UNCHANGED <<groups, max_restarts, processes, pid_file, proc, streak>>
    /\ UNCHANGED <<monVars, auxVars>>
    /\ AfterRaise

\* the alerter raises at line 335 after the status was set
SendAlertRaises ==
    /\ wd_pc = "decide"
    /\ LET g == groups[wd_i]
       IN  /\ Decision(processes[g], wd_local.is_running) = "max_restarts"
           /\ processes' = [processes EXCEPT
                               ![g].status = "StoppedMaxRestarts"]
           /\ pass_hist' = [pass_hist EXCEPT !.raised = @ \cup {g}]
    /\ wd_local' = NoLocal
    /\ alerts' = <<>>
    /\ UNCHANGED <<groups, max_restarts, pid_file, proc, streak>>
    /\ UNCHANGED <<monVars, auxVars>>
    /\ AfterRaise

PassInit ==
    /\ MonVarsInit({1})
    /\ cycle_hist = NoHist
    /\ LoopRunning
    /\ groups = PassGroups
    /\ max_restarts \in {0, 1}
    /\ processes = << >>
    /\ ledger = << >>
    /\ pid_file = [g \in Range(PassGroups) |-> NoPid]
    /\ proc = [p \in PIDS |-> FreeSlot]
    /\ wd_pc = "sleep"
    /\ wd_i = 1
    /\ wd_local = NoLocal
    /\ streak = [g \in Range(PassGroups) |->
                    [dead |-> 0, tried |-> 0, maxed |-> 0, exited |-> FALSE,
                     before |-> "None", crashed |-> FALSE,
                     alerted |-> FALSE]]
    /\ pass_hist = [checked |-> {}, raised |-> {}]
    /\ alerts = <<>>

PassNext ==
    \/ WDWake
    \/ CheckProcess
    \/ LoadPidRaises
    \/ NothingToDo
    \/ GiveUp
    \/ SendAlertRaises
    \/ \E p \in PIDS, recent \in BOOLEAN : SpawnMonitor(p, recent)
    \/ SpawnFails
    \/ AfterGrace
    \/ \E p \in PIDS : MonitorMainCheck(p)
    \/ \E p \in PIDS : MonitorMainWrite(p)

SpecPass == PassInit /\ [][PassNext]_vars

\* ------------------------------------------------------------------------
\* The operator's tools: bin/stop_all.py stops the watchdog and then the
\* monitors, bin/start_all.py starts the monitors and then the watchdog.
\* Both rewrite records of data/watchdog.json; the watchdog reads the file
\* when it is constructed.
\* ------------------------------------------------------------------------
\* stop_all.py, stop_group lines 160-206: the record of a stopped group
StoppedByTool(rec) ==
    [rec EXCEPT !.status = "StoppedManually", !.pid = NoPid,
                !.need_alert = FALSE, !.restart_count = 0]

\* start_all.py, update_watchdog_status lines 171-185: status, pid and
\* count are assigned; a record made here has no need_alert key, which
\* ProcessInfo.from_dict reads as True
StartedByTool(L, g, pid) ==
    IF g \in DOMAIN L
    THEN [L EXCEPT ![g].pid = pid, ![g].status = "Running",
                   ![g].restart_count = 0]
    ELSE Put(L, g, [pid |-> pid, status |-> "Running", restart_count |-> 0,
                    need_alert |-> TRUE])

\* stop_all.py main(), lines 352-420: the watchdog is stopped first, then
\* every monitor; the PID files are removed; with a ledger on disk every
\* configured group gets a "stopped by hand" record
StopAll ==
    /\ TimePasses
    /\ wd_pc' = "down"
    /\ wd_i' = 1
    /\ wd_local' = NoLocal
    /\ processes' = << >>
    /\ proc' = [p \in PIDS |->
                   IF proc[p].st \in {"starting", "writing", "mon"}
                   THEN FreeSlot ELSE proc[p]]
    /\ pid_file' = [g \in DOMAIN pid_file |-> NoPid]
    /\ ledger' = IF ledger = << >> THEN ledger
                 ELSE [g \in DOMAIN ledger \cup Range(groups) |->
                        IF g \in DOMAIN ledger THEN StoppedByTool(ledger[g])
                        ELSE StoppedByTool(NewProcessInfo(NoPid))]
    /\ alerts' = <<>>
    /\ UNCHANGED <<groups, max_restarts, streak>>
    /\ UNCHANGED <<monVars, auxVars, pass_hist>>

\* start_all.py main(), lines 460-472: reset_all_restart_counts(), then
\* start_group for the group: a monitor found running is recorded, else
\* one is launched and recorded when its PID file names it after 2 s
\* (p = NoPid: the launch failed, nothing is recorded)
StartGroups(p) ==
    /\ wd_pc = "down"
    /\ LET g == groups[1]
           old == pid_file[g]
           found == old # NoPid /\ IsAlive(old) /\ IsGroupMonitor(old, g)
           reset == [h \in DOMAIN ledger |-> ResetRecord(ledger[h])]
       IN  IF found
           THEN /\ p = old
                /\ ledger' = StartedByTool(reset, g, old)
                /\ UNCHANGED <<proc, pid_file>>
           ELSE /\ p = NoPid \/ (p \in PIDS /\ proc[p].st = "free")
                /\ proc' = IF p = NoPid THEN proc
                           ELSE [proc EXCEPT ![p] = [st |-> "mon", g |-> g]]
                /\ pid_file' = [pid_file EXCEPT ![g] = p]
                /\ ledger' = IF p = NoPid THEN reset
                             ELSE StartedByTool(reset, g, p)
    /\ alerts' = <<>>
    /\ UNCHANGED <<groups, max_restarts, processes, wd_pc, wd_i, wd_local,
                   streak>>
    /\ UNCHANGED <<monVars, auxVars, pass_hist>>

\* bin/watchdog.py main() line 108: create_watchdog() constructs the
\* Watchdog, whose __init__ calls load_state() (lines 91-106)
WatchdogStarts ==
    /\ wd_pc = "down"
    /\ wd_pc' = "sleep"
    /\ processes' = ledger
    /\ alerts' = <<>>
    /\ UNCHANGED <<groups, max_restarts, ledger, pid_file, proc, wd_i,
                   wd_local, streak>>
    /\ UNCHANGED <<monVars, auxVars, pass_hist>>

ToolsInit ==
    /\ WDInit
    /\ max_restarts = 1

ToolsNext ==
    \/ WDWake
    \/ CheckProcess
    \/ NothingToDo
    \/ GiveUp
    \/ LeaveStopped
    \/ \E p \in PIDS, recent \in BOOLEAN : SpawnMonitor(p, recent)
    \/ SpawnFails
    \/ AfterGrace
    \/ \E p \in PIDS : MonitorMainCheck(p)
    \/ \E p \in PIDS : MonitorMainWrite(p)
    \/ \E p \in PIDS : MonitorCrash(p)
    \/ StopAll
    \/ \E p \in PIDS \cup {NoPid} : StartGroups(p)
    \/ WatchdogStarts

SpecTools == ToolsInit /\ [][ToolsNext]_vars

\* ------------------------------------------------------------------------
\* Failing writes: the monitor alone with save_state() raising, or the
\* watchdog alone with a ledger file that cannot be opened for a while
\* ------------------------------------------------------------------------
\* data/watchdog.json stops or starts being writable (permissions, disk)
LedgerAccessChanges ==
    /\ TimePasses
    /\ ledger_writable' = ~ledger_writable
    /\ alerts' = <<>>
    /\ UNCHANGED <<monVars, wdVars, schedVars, chk, lock>>

\* the watchdog of SpecPass with no monitor loop in this process
PersistWDInit ==
    /\ m_pc = "off"
    /\ unhealthy_threshold = 1
    /\ url_health = << >>
    /\ urls = <<>>
    /\ futures = <<>>
    /\ stray = <<>>
    /\ retry_count = 0
    /\ state_file = NoState
    /\ checks_since_ok = << >>
    /\ cycle_hist = NoHist
    /\ LoopRunning
    /\ groups = PassGroups
    /\ max_restarts \in {0, 1}
    /\ processes = << >>
    /\ ledger = << >>
    /\ pid_file = [g \in Range(PassGroups) |-> NoPid]
    /\ proc = [p \in PIDS |-> FreeSlot]
    /\ wd_pc = "sleep"
    /\ wd_i = 1
    /\ wd_local = NoLocal
    /\ streak = [g \in Range(PassGroups) |->
                    [dead |-> 0, tried |-> 0, maxed |-> 0, exited |-> FALSE,
                     before |-> "None", crashed |-> FALSE,
                     alerted |-> FALSE]]
    /\ pass_hist = [checked |-> {}, raised |-> {}]
    /\ alerts = <<>>

PersistInit == MonInit \/ PersistWDInit

\* the monitor with one target at most, so that no check outlives its cycle
PersistMonNext ==
    \/ MonStart
    \/ \E cfg \in ConfigReloads, tl \in {<<>>, <<"u1">>} : BeginCycle(cfg, tl)
    \/ \E i \in 1..Len(futures), resp \in Responses : RunCheck(i, resp)
    \/ CycleComplete
    \/ SaveFails
    \/ CycleAborted
    \/ Wake

PersistNext ==
    \/ PersistMonNext
    \/ PassNext
    \/ LedgerAccessChanges

SpecPersist == PersistInit /\ [][PersistNext]_vars

\* ------------------------------------------------------------------------
\* The monitor process ending and being started again, with the state file
\* written in place: utils.save_state opens it with mode 'w', which empties
\* it, and json.dump then writes the new content piece by piece
\* ------------------------------------------------------------------------
\* save_state() raised after open(): json.dump or the closing flush failed
\* (disk full, I/O error), the file is left without its end
SaveFailsTorn ==
    /\ m_pc = "wait"
    /\ AllDone
    /\ Backoff
    /\ state_file' = TornFile
    /\ alerts' = <<>>
    /\ cycle_hist' = Hist("none", cycle_hist.partial)
    /\ UNCHANGED <<unhealthy_threshold, url_health, urls, checks_since_ok>>
    /\ UNCHANGED <<wdVars, auxVars>>

\* a new process: URLMonitor.__init__ (lines 21-48) with an empty map
FreshMonitor ==
    /\ m_pc' = "start"
    /\ url_health' = << >>
    /\ urls' = <<>>
    /\ futures' = <<>>
    /\ stray' = <<>>
    /\ retry_count' = 0
    /\ checks_since_ok' = << >>
    /\ alerts' = <<>>
    /\ cycle_hist' = Hist("none", {})
    /\ UNCHANGED unhealthy_threshold
    /\ UNCHANGED <<wdVars, auxVars>>

\* the process ends outside save_state() (crash, kill, stop tool) and
\* bin/monitor_<group>.py is run again
ProcessRestarts ==
    /\ m_pc \in {"cycle", "wait", "sleep", "sleep_empty", "backoff"}
    /\ FreshMonitor
    /\ UNCHANGED state_file

\* the process is ended between open() and the end of json.dump
KilledWhileSaving ==
    /\ m_pc = "wait"
    /\ AllDone
    /\ FreshMonitor
    /\ state_file' = TornFile

RestartNext ==
    \/ PersistMonNext
    \/ SaveFailsTorn
    \/ ProcessRestarts
    \/ KilledWhileSaving

SpecRestart == MonHistInit /\ [][RestartNext]_vars

\* ------------------------------------------------------------------------
\* Properties of the health-state machine and the poll scheduler
\* ------------------------------------------------------------------------
\* the step completes one check of u (a future of the cycle, or a check
\* left in the pool by an abandoned cycle)
CheckStep(u) ==
    \/ /\ m_pc = "wait"
       /\ Len(futures') = Len(futures)
       /\ \E i \in 1..Len(futures) :
             urls[i] = u /\ futures[i] = "pending" /\ futures'[i] # "pending"
    \/ /\ Len(stray') = Len(stray) - 1
       /\ \E k \in 1..Len(stray) :
             /\ stray[k] = u
             /\ stray' = SubSeq(stray, 1, k - 1) \o SubSeq(stray, k + 1, Len(stray))

FailedCheckStep(u) ==
    /\ CheckStep(u)
    /\ u \in DOMAIN url_health
    /\ checks_since_ok'[u].n = checks_since_ok[u].n + 1

OkCheckStep(u) ==
    /\ CheckStep(u)
    /\ u \in DOMAIN url_health
    /\ checks_since_ok'[u].n = 0

\* C1: with every check of the streak run under a threshold T >= 1, the
\* N-th consecutive failing check of a target sends exactly one
\* warning-severity "site" alert when N mod T = 0 and none otherwise.
C1_AlertIffMultiple ==
    [][\A u \in URLS :
        (FailedCheckStep(u) /\ checks_since_ok'[u].clean)
        => alerts' = IF checks_since_ok'[u].n % unhealthy_threshold = 0
                     THEN <<SiteAlert("warning", "unhealthy", u)>>
                     ELSE <<>>]_vars

\* a second threshold crossing of one streak has just alerted
C1_Witness ==
    \E u \in DOMAIN url_health :
        /\ alerts = <<SiteAlert("warning", "unhealthy", u)>>
        /\ checks_since_ok[u].clean
        /\ checks_since_ok[u].n = 2 * unhealthy_threshold

\* C2: a successful check of an alerted target sends exactly one
\* info-severity recovery notice and leaves the entry at (0, false); a
\* successful check of a target that is not alerted sends nothing.
C2_RecoveryOnce ==
    [][\A u \in URLS :
        OkCheckStep(u)
        => /\ alerts' = IF url_health[u].alerted
                        THEN <<SiteAlert("info", "recovered", u)>>
                        ELSE <<>>
           /\ url_health'[u] = [count |-> 0, alerted |-> FALSE]]_vars

C2_Witness ==
    \E u \in DOMAIN url_health :
        /\ alerts = <<SiteAlert("info", "recovered", u)>>
        /\ url_health[u] = [count |-> 0, alerted |-> FALSE]

\* C3: each target's count equals the number of checks of that target
\* completed since its last successful check (or since its entry was
\* created), whatever the target list and the reloaded threshold.
C3_CountIsChecksSinceOk ==
    \A u \in DOMAIN url_health : url_health[u].count = checks_since_ok[u].n

CycleEnded == m_pc \in {"sleep", "sleep_empty", "backoff"}

Current == groups[wd_i]
MaxAlert(g) == ProcessAlert("error", "max_restarts", g)

\* C5: with max_restarts = M, a group nobody stopped that is found dead on
\* consecutive passes has had one restart attempt on each of the first M of
\* them (restart_count following), and on pass M+1 no further attempt and
\* status StoppedMaxRestarts.
C5_RestartOnEachDeadPass ==
    \A g \in AllGroups :
        (wd_pc = "sleep" /\ streak[g].dead >= 1 /\ ~streak[g].exited)
        => /\ streak[g].dead <= max_restarts
                => /\ streak[g].tried = streak[g].dead
                   /\ processes[g].restart_count = streak[g].dead
           /\ streak[g].dead = max_restarts + 1
                => /\ streak[g].tried = max_restarts
                   /\ processes[g].status = "StoppedMaxRestarts"

\* C6: over consecutive passes that find a group dead with restart_count >=
\* max_restarts, the max-restarts alert is emitted once, not once per pass.
C6_MaxAlertOnce == \A g \in AllGroups : streak[g].maxed <= 1

\* C7: when check_all_processes has observed a group not running and the
\* record's restart_count is >= max_restarts, the rest of the pass spawns
\* no process and leaves restart_count as it is.
C7_NoSpawnOverMax ==
    [][(/\ wd_pc = "decide"
        /\ ~wd_local.is_running
        /\ processes[Current].restart_count >= max_restarts)
       => /\ proc' = proc
          /\ wd_pc' # "grace"
          /\ processes'[Current].restart_count
                 = processes[Current].restart_count]_vars

\* a pass ended by giving up on a group whose budget is used up
C7_Witness ==
    /\ wd_pc = "sleep"
    /\ \E g \in DOMAIN processes :
          /\ processes[g].status = "StoppedMaxRestarts"
          /\ processes[g].restart_count >= max_restarts
          /\ alerts = <<MaxAlert(g)>>
          /\ streak[g].tried >= 1

\* C8: a restart of a dead group with restart_count = c < max_restarts
\* takes the count to c+1, and when the new process is found alive after
\* the grace period the record ends the pass with that count and status
\* Running, in memory and in the ledger, with no max-restarts alert.
C8_RestartedIsRunning ==
    /\ [][(wd_pc = "decide" /\ wd_pc' = "grace")
           => /\ processes[Current].restart_count < max_restarts
              /\ processes'[Current].restart_count
                     = processes[Current].restart_count + 1]_vars
    /\ [][(wd_pc = "grace" /\ wd_pc' # "grace" /\ IsAlive(wd_local.new_pid))
           => /\ processes'[Current].restart_count
                     = processes[Current].restart_count
              /\ processes'[Current].status = "Running"
              /\ alerts' # <<MaxAlert(Current)>>
              /\ wd_pc' = "sleep" => ledger'[Current] = processes'[Current]]_vars

\* C9: when the PID file holds the pid of no live process, or of a live
\* process that is no monitor of the group, check_process returns False,
\* leaves status Stopped and the PID file is gone.
C9_StalePidCleaned ==
    [][(/\ wd_pc = "check"
        /\ pid_file[Current] \in PIDS
        /\ \/ proc[pid_file[Current]].st \in {"free", "other"}
           \/ proc[pid_file[Current]].g # Current)
       => /\ wd_pc' = "decide"
          /\ ~wd_local'.is_running
          /\ processes'[Current].status = "Stopped"
          /\ pid_file'[Current] = NoPid]_vars

\* check_process has just met a PID file naming a live process that is no
\* monitor
C9_Witness ==
    /\ wd_pc = "decide"
    /\ ~wd_local.is_running
    /\ processes[Current].pid \in PIDS
    /\ proc[processes[Current].pid].st = "other"
    /\ processes[Current].status = "Stopped"
    /\ pid_file[Current] = NoPid

\* C10: whatever the record holds, a pass that finds a stale PID file
\* leaves the same status and takes the same decision (restart, give up
\* with an alert, or nothing) as it would with no PID file at all.
C10_StaleSameAsNoFile ==
    (/\ wd_pc = "check"
     /\ Current \in DOMAIN processes
     /\ StalePid(pid_file[Current], Current))
    => PassOutcome(processes, Current, pid_file[Current])
          = PassOutcome(processes, Current, NoPid)

RestartedAlert(g) == ProcessAlert("warning", "restarted", g)
RestartFailedAlert(g) == ProcessAlert("warning", "restart_failed", g)
\* the step is the end of restart_process and the alerting that follows it
GraceEnds == wd_pc = "grace" /\ wd_pc' # "grace"

\* C11: the alert of a successful restart is suppressed only for a record
\* that was already Stopped before the pass; a group that was Running at
\* the previous pass, is found dead and is restarted with success gets the
\* warning 'restarted' alert.
C11_RestartOfRunningAlerts ==
    [][(GraceEnds /\ IsAlive(wd_local.new_pid)
           /\ streak[Current].before = "Running")
       => alerts' = <<RestartedAlert(Current)>>]_vars

\* C12: once a monitor of a group has died and nobody stopped the group,
\* the watchdog does not end a pass leaving the dead group without a restart
\* attempt unless a 'process' alert has been emitted for it since it was
\* last seen running.
C12_NoSilentGiveUp ==
    [][(/\ wd_pc = "decide" /\ wd_pc' # "grace"
        /\ ~wd_local.is_running
        /\ streak[Current].crashed /\ ~streak[Current].exited)
       => streak'[Current].alerted]_vars

\* C13: a PID-file value that has changed to the pid of a dead or unrelated
\* process does not reset restart_count.
C13_NoResetOnStalePid ==
    [][(/\ wd_pc = "check"
        /\ Current \in DOMAIN processes
        /\ StalePid(pid_file[Current], Current))
       => processes'[Current].restart_count
             = processes[Current].restart_count]_vars

\* C14: restart_count of a group grows only in a step of the pass that goes
\* into restart_process for that group (a spawn, or a spawn that raised),
\* and then by exactly 1; a record that a check creates starts at 0.
C14_CountGrowsOnlyOnRestart ==
    [][\A g \in AllGroups :
          LET old == IF g \in DOMAIN processes
                     THEN processes[g].restart_count ELSE 0
              new == IF g \in DOMAIN processes'
                     THEN processes'[g].restart_count ELSE 0
          IN  new > old
              => /\ wd_pc = "decide"
                 /\ g = Current
                 /\ new = old + 1
                 /\ \/ wd_pc' = "grace" /\ proc' # proc
                    \/ alerts' = <<RestartFailedAlert(g)>>]_vars

\* a second restart attempt of one dead spell has just spawned
C14_Witness ==
    /\ wd_pc = "grace"
    /\ processes[Current].restart_count = 2
    /\ streak[Current].tried = 2

\* C15: a check that finds the group's monitor running while the record
\* says Stopped, StoppedMaxRestarts or StoppedManually leaves restart_count
\* 0, need_alert true and status Running.
C15_RunningAgainResets ==
    [][(/\ wd_pc = "check"
        /\ Current \in DOMAIN processes
        /\ processes[Current].status
              \in {"Stopped", "StoppedMaxRestarts", "StoppedManually"}
        /\ pid_file[Current] \in PIDS
        /\ proc[pid_file[Current]].st \in {"starting", "writing", "mon"}
        /\ proc[pid_file[Current]].g = Current)
       => /\ wd_local'.is_running
          /\ processes'[Current].restart_count = 0
          /\ processes'[Current].need_alert
          /\ processes'[Current].status = "Running"]_vars

\* a group given up on has just been found running again
C15_Witness ==
    /\ wd_pc = "decide"
    /\ wd_local.is_running
    /\ streak[Current].before = "StoppedMaxRestarts"
    /\ max_restarts >= 1
    /\ processes[Current].restart_count = 0
    /\ processes[Current].need_alert
    /\ processes[Current].status = "Running"

\* C16: the watchdog changes the process table only by spawning a monitor
\* of the group it is handling, after check_process reported that group not
\* running and with the record not StoppedManually.
C16_SpawnOnlyWhenDead ==
    [][(wd_pc \in {"check", "decide"} /\ proc' # proc)
       => /\ wd_pc = "decide"
          /\ ~wd_local.is_running
          /\ processes[Current].status # "StoppedManually"
          /\ \E p \in PIDS :
                /\ proc[p].st = "free"
                /\ proc' = [proc EXCEPT
                               ![p] = [st |-> "starting", g |-> Current]]]_vars

\* the watchdog has just spawned a monitor for a group it found stopped
C16_Witness ==
    /\ wd_pc = "grace"
    /\ ~wd_local.is_running
    /\ processes[Current].status = "Stopped"
    /\ proc[wd_local.new_pid] = [st |-> "starting", g |-> Current]
    /\ streak[Current].before = "Running"

\* C17: a pass over a record that is StoppedManually, with no PID file,
\* leaves it StoppedManually, spawns nothing and emits no alert.
C17_ManualStopStays ==
    /\ [][(/\ wd_pc = "check"
           /\ Current \in DOMAIN processes
           /\ processes[Current].status = "StoppedManually"
           /\ pid_file[Current] = NoPid)
          => /\ ~wd_local'.is_running
             /\ processes'[Current].status = "StoppedManually"
             /\ alerts' = <<>>]_vars
    /\ [][(/\ wd_pc = "decide"
           /\ ~wd_local.is_running
           /\ processes[Current].status = "StoppedManually")
          => /\ processes' = processes
             /\ proc' = proc
             /\ wd_pc' # "grace"
             /\ alerts' = <<>>]_vars

\* the third pass in a row has left the group as stopped by hand
C17_Witness ==
    /\ wd_pc = "sleep"
    /\ streak[Current].before = "StoppedManually"
    /\ processes[Current].status = "StoppedManually"
    /\ pid_file[Current] = NoPid
    /\ streak[Current].dead >= 3

\* C18: a restart whose new process is not alive after the grace period,
\* and a restart whose spawn raised, each emit the warning 'restart failed'
\* alert, whatever restart_process made of need_alert.
C18_FailedRestartAlerts ==
    [][(\/ GraceEnds /\ ~IsAlive(wd_local.new_pid)
        \/ /\ wd_pc = "decide" /\ wd_pc' # "grace"
           /\ processes'[Current].restart_count
                 > processes[Current].restart_count)
       => alerts' = <<RestartFailedAlert(Current)>>]_vars

\* a restart inside the startup window failed and was reported
C18_Witness ==
    /\ wd_pc = "sleep"
    /\ alerts = <<RestartFailedAlert(Current)>>
    /\ ~processes[Current].need_alert
    /\ processes[Current].restart_count >= 1

\* ------------------------------------------------------------------------
\* Properties of the worker pool
\* ------------------------------------------------------------------------
\* C19: once a cycle has submitted its checks, no check of an earlier cycle
\* is still in the pool, whether that cycle ended with every check
\* returning or with a check raising.
C19_CyclesDoNotOverlap == m_pc = "wait" => stray = <<>>

\* C20: whatever the target file holds, the checks a cycle submits are for
\* pairwise different URLs.
C20_OneCheckPerUrl ==
    m_pc = "wait"
    => \A i, j \in 1..Len(urls) : urls[i] = urls[j] => i = j

\* ------------------------------------------------------------------------
\* Properties of the cycle's error handling and of the snapshot
\* ------------------------------------------------------------------------
\* C21: a cycle whose configuration reload failed submits no check and goes
\* into the backoff sleep.
C21_ReloadFailureBacksOff ==
    cycle_hist.reload = "failed" => (m_pc = "backoff" /\ futures = <<>>)

\* C22: no check is ever submitted or run with unhealthy_threshold = 0.
C22_ThresholdNeverZero ==
    (futures # <<>> \/ stray # <<>>) => unhealthy_threshold # 0

\* C25: for every target, alerted = true implies count > 0.
C25_AlertedHasCount ==
    \A u \in DOMAIN url_health : url_health[u].alerted => url_health[u].count > 0

\* an alerted target whose streak has gone on past the alert
C25_Witness ==
    \E u \in DOMAIN url_health :
        /\ url_health[u].alerted
        /\ unhealthy_threshold = 2
        /\ url_health[u].count = 3

\* C27: the state file is written only with the health map of the end of a
\* cycle whose checks all completed, and that map holds no update made by
\* a check of a cycle that did not complete.
C27_SnapshotOfCompleteCycles ==
    [][state_file' # state_file
       => /\ m_pc = "wait" /\ AllDone
          /\ state_file' = JsonDump(url_health)
          /\ cycle_hist.partial = {}]_vars

\* the sleeps of a run of failed cycles, by position in the run
C23_Sequence == <<10, 20, 40, 80, 160, 300, 300>>

\* C23: the sleep after the k-th consecutive failed cycle is
\* min(300, 10 * 2^(k-1)) seconds, and a cycle after a completed one starts
\* with the retry counter at 0 (so the next failure sleeps 10 seconds).
C23_BackoffSequence ==
    /\ m_pc = "backoff" =>
          slept = IF fails <= Len(C23_Sequence) THEN C23_Sequence[fails] ELSE 300
    /\ (m_pc = "cycle" /\ fails = 0) => retry_count = 0

\* the sixth and later failures in a row sleep 300 seconds
C23_Witness ==
    m_pc = "backoff" /\ fails = 7 /\ slept = 300

\* C24: the loop exits only after stop(); a failed cycle is followed by
\* nothing but the next cycle attempt, unless stop() was called, and that
\* attempt eventually comes.
C24_FailureNeverEndsLoop ==
    /\ [][/\ m_pc' = "exited" => ~mon_running
          /\ (m_pc = "backoff" /\ m_pc' # "backoff")
                => (m_pc' = "cycle" \/ ~mon_running)]_vars
    /\ (m_pc = "backoff") ~> (m_pc = "cycle" \/ ~mon_running)

\* a cycle attempted after a failed one
C24_Witness ==
    m_pc = "cycle" /\ fails > 0 /\ mon_running

Recovered(u) == SiteAlert("info", "recovered", u)

\* C26: when the recovery alert of a target is sent, its entry has not been
\* cleared yet: the sending step starts from a state where the entry is
\* still alerted with a positive count.
C26_RecoveryBeforeClear ==
    [][\A t \in Threads :
          (chk[t].pc = "send" /\ chk'[t].pc = "idle"
              /\ Recovered(chk[t].url) \in Range(alerts'))
          => /\ url_health[chk[t].url].alerted
             /\ url_health[chk[t].url].count > 0]_vars

\* C28: whatever the PID file holds, no step of the watchdog takes a record
\* from StoppedManually to Stopped or StoppedMaxRestarts.
C28_ManualStopOnlyToRunning ==
    [][\A g \in DOMAIN processes :
          processes[g].status = "StoppedManually"
          => processes'[g].status \in {"StoppedManually", "Running"}]_vars

\* C29: a pass over a group that had been given up on (StoppedMaxRestarts)
\* and whose count in the ledger file is 0 (reset by an external tool)
\* decides with count 0, so that restart attempts resume.
C29_ExternalResetHonoured ==
    \A g \in DOMAIN ledger \cap DOMAIN processes :
        (/\ wd_pc = "decide" /\ Current = g
         /\ streak[g].before = "StoppedMaxRestarts"
         /\ ledger[g].restart_count = 0)
        => processes[g].restart_count = 0

\* the step ends a pass of the watchdog
PassEnds == wd_pc # "sleep" /\ wd_pc' = "sleep"

\* C30: a pass in which the handling of a group raised still calls
\* check_process for every configured group and ends by writing the
\* ledger from the records in memory.
C30_RaiseDoesNotBlockOthers ==
    [][(PassEnds /\ pass_hist'.raised # {})
       => /\ pass_hist'.checked = Range(groups)
          /\ ledger' = processes']_vars

\* the first group raised and the second was restarted in the same pass
C30_Witness ==
    /\ wd_pc = "sleep"
    /\ pass_hist.raised = {"group2"}
    /\ pass_hist.checked = {"group2", "group3"}
    /\ "group3" \in DOMAIN processes
    /\ processes["group3"].restart_count = 1
    /\ ledger = processes

\* ------------------------------------------------------------------------
\* Frame conditions of the monitor
\* ------------------------------------------------------------------------
\* C37: a cycle whose target list is empty (or could not be loaded) submits
\* no check, changes no entry of the health map, does not write the state
\* file, and goes into the sleep of monitor_interval, not into the backoff.
C37_EmptyListCycleChangesNothing ==
    [][(m_pc = "cycle" /\ m_pc' # "cycle" /\ urls' = <<>>)
       => /\ futures' = <<>>
          /\ url_health' = url_health
          /\ state_file' = state_file
          /\ m_pc' = "sleep_empty"
          /\ retry_count' = retry_count]_vars

\* an empty list was loaded while the map held an alerted entry
C37_Witness ==
    /\ m_pc = "sleep_empty"
    /\ stray = <<>>
    /\ \E u \in DOMAIN url_health : url_health[u].alerted

\* C38: an entry's alerted flag goes from true to false only in a
\* successful check of that target, or by the deletion of the entry when
\* the URL is missing from the list the cycle loaded; never in a failing
\* check, whatever the threshold.
C38_AlertedClearedOnlyOnSuccess ==
    [][\A u \in DOMAIN url_health :
          (/\ url_health[u].alerted
           /\ u \in DOMAIN url_health' => ~url_health'[u].alerted)
          => \/ /\ CheckStep(u)
                /\ checks_since_ok'[u].n = 0
                /\ u \in DOMAIN url_health'
             \/ /\ m_pc = "cycle"
                /\ u \notin Range(urls')
                /\ u \notin DOMAIN url_health']_vars

\* a failing check of an alerted target that did not reach the threshold
\* again has left it alerted
C38_Witness ==
    \E u \in DOMAIN url_health :
        /\ url_health[u].alerted
        /\ unhealthy_threshold = 2
        /\ url_health[u].count = 3
        /\ checks_since_ok[u].n = 3
        /\ alerts = <<>>

\* ------------------------------------------------------------------------
\* Persistence failures
\* ------------------------------------------------------------------------
\* C31: a failed write of the health-state file leaves the health map as
\* it was and sends the loop into its backoff sleep, and the next cycle
\* whose checks return writes the whole map again; a failed write of the
\* ledger leaves the file as it was and the records of the groups handled
\* earlier in the pass as they were, the watchdog goes to its sleep, and
\* the pass that next finds the file writable writes all records.
C31_FailedWriteKeepsMemory ==
    [][/\ (m_pc = "wait" /\ AllDone /\ m_pc' = "backoff")
            => url_health' = url_health
       /\ (m_pc = "wait" /\ AllDone /\ m_pc' \notin {"wait", "backoff"})
            => (m_pc' = "sleep" /\ state_file' = JsonDump(url_health))
       /\ (PassEnds /\ ~ledger_writable)
            => /\ ledger' = ledger
               /\ DOMAIN processes' = DOMAIN processes
               /\ \A g \in DOMAIN processes :
                     g # groups[wd_i] => processes'[g] = processes[g]
       /\ (PassEnds /\ ledger_writable) => ledger' = processes']_vars

\* a pass has ended without being able to write the records it changed
C31_Witness ==
    /\ wd_pc = "sleep"
    /\ ~ledger_writable
    /\ ledger # << >>
    /\ ledger # processes

\* ------------------------------------------------------------------------
\* Watchdog records
\* ------------------------------------------------------------------------
\* C32: a record with status Running has need_alert true, in the
\* watchdog's memory and in the ledger.
C32_RunningImpliesNeedAlert ==
    /\ \A g \in DOMAIN processes :
          processes[g].status = "Running" => processes[g].need_alert
    /\ \A g \in DOMAIN ledger :
          ledger[g].status = "Running" => ledger[g].need_alert

\* C33: the watchdog's record of a group is StoppedManually only when a
\* monitor of that group was stopped from outside (it ran its exit
\* handler); a group whose monitor crashed or never came up is not
\* classified StoppedManually by the watchdog on its own.
C33_ManualStopNeedsManualStop ==
    \A g \in DOMAIN processes :
        processes[g].status = "StoppedManually" => streak[g].exited

\* C34: at any time at most one process of a group is past the start-up
\* check of bin/monitor_<group>.py, that is, about to monitor or
\* monitoring.
C34_OneLiveMonitorPerGroup ==
    \A g \in AllGroups :
        Cardinality({p \in PIDS : /\ proc[p].st \in {"writing", "mon"}
                                  /\ proc[p].g = g}) <= 1

\* ------------------------------------------------------------------------
\* The health-map mutex
\* ------------------------------------------------------------------------
\* C35: a worker that is in the HTTP request, or in the logging and
\* notifying that follow the update, does not hold self.lock; a worker
\* holds it only in the block that reads and updates the target's count
\* and alerted flag, and the monitor thread only in the reconcile step.
C35_LockOnlyAroundUpdates ==
    /\ \A t \in Threads : chk[t].pc \in {"get", "lock", "send", "idle"}
                               => lock # t
    /\ lock = "main" => m_pc = "reconcile"

\* one worker is in its request while the other holds the lock
C35_Witness ==
    /\ lock = "t1"
    /\ chk["t1"].pc = "locked"
    /\ chk["t2"].pc = "get"

\* C39: the restart count of every record of the watchdog stays at or
\* below max_restarts.
C39_RestartCountBounded ==
    \A g \in DOMAIN processes : processes[g].restart_count <= max_restarts

\* the whole budget has been spent
C39_Witness ==
    /\ max_restarts = MaxMaxRestarts
    /\ \E g \in DOMAIN processes :
          /\ processes[g].restart_count = max_restarts
          /\ processes[g].status = "StoppedMaxRestarts"

\* ------------------------------------------------------------------------
\* Stopping the monitor
\* ------------------------------------------------------------------------
\* C40: once stop() has been called the loop does not begin another
\* cycle: a cycle in progress is followed by its sleep, the sleep by the
\* exit of the loop, and the loop does exit.
C40_StopEndsLoop ==
    /\ [][~mon_running =>
            /\ (m_pc' = "cycle" => m_pc = "cycle")
            /\ (m_pc \in {"start", "sleep", "sleep_empty", "backoff"}
                   /\ m_pc' # m_pc) => m_pc' = "exited"
            /\ m_pc = "exited" => m_pc' = "exited"]_vars
    /\ (~mon_running) ~> (m_pc = "exited")

\* stop() came during a cycle or its sleep, and the loop has ended
C40_Witness ==
    m_pc = "exited" /\ ~mon_running /\ slept > 0

\* ------------------------------------------------------------------------
\* The health map across a restart of the monitor
\* ------------------------------------------------------------------------
\* C36: the file written at the end of a completed cycle reads back as
\* the map that was written, and a monitor that starts after a cycle has
\* completed with a non-empty map loads the map of the last completed
\* cycle.
C36_RestartLoadsLastSave ==
    [][/\ (m_pc = "wait" /\ m_pc' = "sleep")
            => StateLoaded(state_file', << >>) = url_health
       /\ (m_pc = "start" /\ m_pc' = "cycle"
              /\ DOMAIN cycle_hist.saved # {})
            => url_health' = cycle_hist.saved]_vars

====
